---------------------------- MODULE Spec2Model ----------------------------
(***************************************************************************)
(* A model of dump_opentype_font (src/src/main.rs): main reads a font      *)
(* file, Collection::from_bytes extracts one Font per font of the file,    *)
(* Name::try_from decodes each name record, NameId::from and language      *)
(* resolve numeric identifiers, and main writes the Collection as JSON.    *)
(*                                                                         *)
(* Representation.  Rust's Option is None / Some(v); a Result is a record  *)
(* with tag "Ok" (and value), "Err" (and error) or "Panic" (the thread     *)
(* unwinds: no value is returned).  A String is the sequence of its        *)
(* Unicode scalar values, except the &'static str labels of language,      *)
(* which are TLA+ strings in which a character outside ASCII is written    *)
(* \uXXXX.  An enum variant without payload is the string of its name.     *)
(* The ttf_parser crate is the environment: the model holds what its       *)
(* calls answer (fonts_in_collection, Font::from_data and the accessors    *)
(* of the font it returns), not the bytes of the file.                     *)
(***************************************************************************)
EXTENDS Integers, Sequences, FiniteSets, TLC

VARIABLES pc, collection, count, ix, views, fonts, result, data, stdout, arg, ret

vars == <<pc, collection, count, ix, views, fonts, result, data, stdout, arg, ret>>

None == [tag |-> "None"]

Some(v) == [tag |-> "Some", v |-> v]

Ok(v) == [tag |-> "Ok", value |-> v]

Err(e) == [tag |-> "Err", error |-> e]

Panic(m) == [tag |-> "Panic", message |-> m]

\* Option::unwrap_or
unwrap_or(opt, default) == IF opt = None THEN default ELSE opt.v

\* format!("{:?}", v) of an enum variant without payload: its name
fmt_debug(variant) == variant

\* Option::map(|m| format!("{:?}", m))
map_fmt_debug(opt) == IF opt = None THEN None ELSE Some(fmt_debug(opt.v))

U16 == 0..65535

-----------------------------------------------------------------------------
(* Bounds of the model *)

\* most fonts a collection header declares
MaxFonts == 2

\* most name records in one font
MaxNames == 1

\* most axes a variation-axes table declares
MaxAxes == 2

\* longest name payload drawn byte by byte
MaxLen == 3

\* longest name payload drawn as big-endian 16-bit code units
MaxUnits == 3

-----------------------------------------------------------------------------
(* ttf_parser::name_id, as used by NameId::from *)

COPYRIGHT_NOTICE == 0
FAMILY == 1
SUBFAMILY == 2
UNIQUE_ID == 3
FULL_NAME == 4
VERSION == 5
POST_SCRIPT_NAME == 6
TRADEMARK == 7
MANUFACTURER == 8
DESIGNER == 9
DESCRIPTION == 10
VENDOR_URL == 11
DESIGNER_URL == 12
LICENSE == 13
LICENSE_URL == 14
TYPOGRAPHIC_FAMILY == 16
TYPOGRAPHIC_SUBFAMILY == 17
COMPATIBLE_FULL == 18
SAMPLE_TEXT == 19
POST_SCRIPT_CID == 20
WWS_FAMILY == 21
WWS_SUBFAMILY == 22
LIGHT_BACKGROUND_PALETTE == 23
DARK_BACKGROUND_PALETTE == 24
VARIATIONS_POST_SCRIPT_NAME_PREFIX == 25

\* enum NameId: a named variant, or Unrecognised(u16)
Unrecognised(n) == [variant |-> "Unrecognised", n |-> n]

NameIdVariant(name) == [variant |-> name]

\* the arms of the match of NameId::from, in source order
NameIdArms ==
    COMPATIBLE_FULL :> NameIdVariant("CompatibleFull")
    @@ COPYRIGHT_NOTICE :> NameIdVariant("CopyrightNotice")
    @@ DARK_BACKGROUND_PALETTE :> NameIdVariant("DarkBackgroundPallete")
    @@ DESCRIPTION :> NameIdVariant("Description")
    @@ DESIGNER :> NameIdVariant("Designer")
    @@ DESIGNER_URL :> NameIdVariant("DesignerURL")
    @@ FAMILY :> NameIdVariant("Family")
    @@ FULL_NAME :> NameIdVariant("FullName")
    @@ LICENSE :> NameIdVariant("License")
    @@ LICENSE_URL :> NameIdVariant("LicenseURL")
    @@ LIGHT_BACKGROUND_PALETTE :> NameIdVariant("LightBackgroundPallete")
    @@ MANUFACTURER :> NameIdVariant("Manufacturer")
    @@ POST_SCRIPT_CID :> NameIdVariant("PostScriptCID")
    @@ POST_SCRIPT_NAME :> NameIdVariant("PostScriptName")
    @@ SAMPLE_TEXT :> NameIdVariant("SampleText")
    @@ SUBFAMILY :> NameIdVariant("Subfamily")
    @@ TRADEMARK :> NameIdVariant("Trademark")
    @@ TYPOGRAPHIC_FAMILY :> NameIdVariant("TypographicFamily")
    @@ TYPOGRAPHIC_SUBFAMILY :> NameIdVariant("TypographicSubfamily")
    @@ UNIQUE_ID :> NameIdVariant("UniqueID")
    @@ VARIATIONS_POST_SCRIPT_NAME_PREFIX :> NameIdVariant("VariationsPostScriptNamePrefix")
    @@ VENDOR_URL :> NameIdVariant("VendorURL")
    @@ VERSION :> NameIdVariant("Version")
    @@ WWS_FAMILY :> NameIdVariant("WWSFamily")
    @@ WWS_SUBFAMILY :> NameIdVariant("WWSSubfamily")

\* NameId::from with the last arm losing the value it matched
NameId_from_DropsValue(raw) ==
    IF raw \in DOMAIN NameIdArms THEN NameIdArms[raw] ELSE Unrecognised(0)

\* impl From<u16> for NameId
NameId_from(raw) ==
    IF raw \in DOMAIN NameIdArms THEN NameIdArms[raw] ELSE Unrecognised(raw)

-----------------------------------------------------------------------------
(* fn language: the arms of the inner match on language_id, in source order *)

WindowsLanguages ==
    0 :> "None"
    @@ \H0436 :> "Afrikaans (South Africa)"
    @@ \H041C :> "Albanian (Albania)"
    @@ \H0484 :> "Alsatian (France)"
    @@ \H045E :> "Amharic (Ethiopia)"
    @@ \H1401 :> "Arabic (Algeria)"
    @@ \H3C01 :> "Arabic (Bahrain)"
    @@ \H0C01 :> "Arabic (Egypt)"
    @@ \H0801 :> "Arabic (Iraq)"
    @@ \H2C01 :> "Arabic (Jordan)"
    @@ \H3401 :> "Arabic (Kuwait)"
    @@ \H3001 :> "Arabic (Lebanon)"
    @@ \H1001 :> "Arabic (Libya)"
    @@ \H1801 :> "Arabic (Morocco)"
    @@ \H2001 :> "Arabic (Oman)"
    @@ \H4001 :> "Arabic (Qatar)"
    @@ \H0401 :> "Arabic (Saudi Arabia)"
    @@ \H2801 :> "Arabic (Syria)"
    @@ \H1C01 :> "Arabic (Tunisia)"
    @@ \H3801 :> "Arabic (U.A.E.)"
    @@ \H2401 :> "Arabic (Yemen)"
    @@ \H042B :> "Armenian (Armenia)"
    @@ \H044D :> "Assamese (India)"
    @@ \H082C :> "Azeri (Cyrillic) (Azerbaijan)"
    @@ \H042C :> "Azeri (Latin) (Azerbaijan)"
    @@ \H046D :> "Bashkir (Russia)"
    @@ \H042D :> "Basque (Basque)"
    @@ \H0423 :> "Belarusian (Belarus)"
    @@ \H0845 :> "Bengali (Bangladesh)"
    @@ \H0445 :> "Bengali (India)"
    @@ \H201A :> "Bosnian (Cyrillic) (Bosnia and Herzegovina)"
    @@ \H141A :> "Bosnian (Latin) (Bosnia and Herzegovina)"
    @@ \H047E :> "Breton (France)"
    @@ \H0402 :> "Bulgarian (Bulgaria)"
    @@ \H0403 :> "Catalan (Catalan)"
    @@ \H0C04 :> "Chinese (Hong Kong S.A.R.)"
    @@ \H1404 :> "Chinese (Macao S.A.R.)"
    @@ \H0804 :> "Chinese (People\\u2019s Republic of China)"
    @@ \H1004 :> "Chinese (Singapore)"
    @@ \H0404 :> "Chinese (Taiwan)"
    @@ \H0483 :> "Corsican (France)"
    @@ \H041A :> "Croatian (Croatia)"
    @@ \H101A :> "Croatian (Latin) (Bosnia and Herzegovina)"
    @@ \H0405 :> "Czech (Czech Republic)"
    @@ \H0406 :> "Danish (Denmark)"
    @@ \H048C :> "Dari (Afghanistan)"
    @@ \H0465 :> "Divehi (Maldives)"
    @@ \H0813 :> "Dutch (Belgium)"
    @@ \H0413 :> "Dutch (Netherlands)"
    @@ \H0C09 :> "English (Australia)"
    @@ \H2809 :> "English (Belize)"
    @@ \H1009 :> "English (Canada)"
    @@ \H2409 :> "English (Caribbean)"
    @@ \H4009 :> "English (India)"
    @@ \H1809 :> "English (Ireland)"
    @@ \H2009 :> "English (Jamaica)"
    @@ \H4409 :> "English (Malaysia)"
    @@ \H1409 :> "English (New Zealand)"
    @@ \H3409 :> "English (Republic of the Philippines)"
    @@ \H4809 :> "English (Singapore)"
    @@ \H1C09 :> "English (South Africa)"
    @@ \H2C09 :> "English (Trinidad and Tobago)"
    @@ \H0809 :> "English (United Kingdom)"
    @@ \H0409 :> "English (United States)"
    @@ \H3009 :> "English (Zimbabwe)"
    @@ \H0425 :> "Estonian (Estonia)"
    @@ \H0438 :> "Faroese (Faroe Islands)"
    @@ \H0464 :> "Filipino (Philippines)"
    @@ \H040B :> "Finnish (Finland)"
    @@ \H080C :> "French (Belgium)"
    @@ \H0C0C :> "French (Canada)"
    @@ \H040C :> "French (France)"
    @@ \H140c :> "French (Luxembourg)"
    @@ \H180C :> "French (Principality of Monaco)"
    @@ \H100C :> "French (Switzerland)"
    @@ \H0462 :> "Frisian (Netherlands)"
    @@ \H0456 :> "Galician (Galician)"
    @@ \H0437 :> "Georgian (Georgia)"
    @@ \H0C07 :> "German (Austria)"
    @@ \H0407 :> "German (Germany)"
    @@ \H1407 :> "German (Liechtenstein)"
    @@ \H1007 :> "German (Luxembourg)"
    @@ \H0807 :> "German (Switzerland)"
    @@ \H0408 :> "Greek (Greece)"
    @@ \H046F :> "Greenlandic (Greenland)"
    @@ \H0447 :> "Gujarati (India)"
    @@ \H0468 :> "Hausa (Latin) (Nigeria)"
    @@ \H040D :> "Hebrew (Israel)"
    @@ \H0439 :> "Hindi (India)"
    @@ \H040E :> "Hungarian (Hungary)"
    @@ \H040F :> "Icelandic (Iceland)"
    @@ \H0470 :> "Igbo (Nigeria)"
    @@ \H0421 :> "Indonesian (Indonesia)"
    @@ \H045D :> "Inuktitut (Canada)"
    @@ \H085D :> "Inuktitut (Latin) (Canada)"
    @@ \H083C :> "Irish (Ireland)"
    @@ \H0434 :> "isiXhosa (South Africa)"
    @@ \H0435 :> "isiZulu (South Africa)"
    @@ \H0410 :> "Italian (Italy)"
    @@ \H0810 :> "Italian (Switzerland)"
    @@ \H0411 :> "Japanese (Japan)"
    @@ \H044B :> "Kannada (India)"
    @@ \H043F :> "Kazakh (Kazakhstan)"
    @@ \H0453 :> "Khmer (Cambodia)"
    @@ \H0486 :> "K\\u2019iche (Guatemala)"
    @@ \H0487 :> "Kinyarwanda (Rwanda)"
    @@ \H0441 :> "Kiswahili (Kenya)"
    @@ \H0457 :> "Konkani (India)"
    @@ \H0412 :> "Korean (Korea)"
    @@ \H0440 :> "Kyrgyz (Kyrgyzstan)"
    @@ \H0454 :> "Lao (Lao P.D.R.)"
    @@ \H0426 :> "Latvian (Latvia)"
    @@ \H0427 :> "Lithuanian (Lithuania)"
    @@ \H082E :> "Lower Sorbian (Germany)"
    @@ \H046E :> "Luxembourgish (Luxembourg)"
    @@ \H042F :> "Macedonian (FYROM) (Former Yugoslav Republic of Macedonia)"
    @@ \H083E :> "Malay (Brunei Darussalam)"
    @@ \H043E :> "Malay (Malaysia)"
    @@ \H044C :> "Malayalam (India)"
    @@ \H043A :> "Maltese (Malta)"
    @@ \H0481 :> "Maori (New Zealand)"
    @@ \H047A :> "Mapudungun (Chile)"
    @@ \H044E :> "Marathi (India)"
    @@ \H047C :> "Mohawk (Mohawk)"
    @@ \H0450 :> "Mongolian (Cyrillic) (Mongolia)"
    @@ \H0850 :> "Mongolian (Traditional) (People\\u2019s Republic of China)"
    @@ \H0461 :> "Nepali (Nepal)"
    @@ \H0414 :> "Norwegian (Bokmal) (Norway)"
    @@ \H0814 :> "Norwegian (Nynorsk) (Norway)"
    @@ \H0482 :> "Occitan (France)"
    @@ \H0448 :> "Odia (formerly Oriya) (India)"
    @@ \H0463 :> "Pashto (Afghanistan)"
    @@ \H0415 :> "Polish (Poland)"
    @@ \H0416 :> "Portuguese (Brazil)"
    @@ \H0816 :> "Portuguese (Portugal)"
    @@ \H0446 :> "Punjabi (India)"
    @@ \H046B :> "Quechua (Bolivia)"
    @@ \H086B :> "Quechua (Ecuador)"
    @@ \H0C6B :> "Quechua (Peru)"
    @@ \H0418 :> "Romanian (Romania)"
    @@ \H0417 :> "Romansh (Switzerland)"
    @@ \H0419 :> "Russian (Russia)"
    @@ \H243B :> "Sami (Inari) (Finland)"
    @@ \H103B :> "Sami (Lule) (Norway)"
    @@ \H143B :> "Sami (Lule) (Sweden)"
    @@ \H0C3B :> "Sami (Northern) (Finland)"
    @@ \H043B :> "Sami (Northern) (Norway)"
    @@ \H083B :> "Sami (Northern) (Sweden)"
    @@ \H203B :> "Sami (Skolt) (Finland)"
    @@ \H183B :> "Sami (Southern) (Norway)"
    @@ \H1C3B :> "Sami (Southern) (Sweden)"
    @@ \H044F :> "Sanskrit (India)"
    @@ \H1C1A :> "Serbian (Cyrillic) (Bosnia and Herzegovina)"
    @@ \H0C1A :> "Serbian (Cyrillic) (Serbia)"
    @@ \H181A :> "Serbian (Latin) (Bosnia and Herzegovina)"
    @@ \H081A :> "Serbian (Latin) (Serbia)"
    @@ \H046C :> "Sesotho sa Leboa (South Africa)"
    @@ \H0432 :> "Setswana (South Africa)"
    @@ \H045B :> "Sinhala (Sri Lanka)"
    @@ \H041B :> "Slovak (Slovakia)"
    @@ \H0424 :> "Slovenian (Slovenia)"
    @@ \H2C0A :> "Spanish (Argentina)"
    @@ \H400A :> "Spanish (Bolivia)"
    @@ \H340A :> "Spanish (Chile)"
    @@ \H240A :> "Spanish (Colombia)"
    @@ \H140A :> "Spanish (Costa Rica)"
    @@ \H1C0A :> "Spanish (Dominican Republic)"
    @@ \H300A :> "Spanish (Ecuador)"
    @@ \H440A :> "Spanish (El Salvador)"
    @@ \H100A :> "Spanish (Guatemala)"
    @@ \H480A :> "Spanish (Honduras)"
    @@ \H080A :> "Spanish (Mexico)"
    @@ \H4C0A :> "Spanish (Nicaragua)"
    @@ \H180A :> "Spanish (Panama)"
    @@ \H3C0A :> "Spanish (Paraguay)"
    @@ \H280A :> "Spanish (Peru)"
    @@ \H500A :> "Spanish (Puerto Rico)"
    @@ \H0C0A :> "Spanish (Modern Sort) (Spain)"
    @@ \H040A :> "Spanish (Traditional Sort) (Spain)"
    @@ \H540A :> "Spanish (United States)"
    @@ \H380A :> "Spanish (Uruguay)"
    @@ \H200A :> "Spanish (Venezuela)"
    @@ \H081D :> "Sweden (Finland)"
    @@ \H041D :> "Swedish (Sweden)"
    @@ \H045A :> "Syriac (Syria)"
    @@ \H0428 :> "Tajik (Cyrillic) (Tajikistan)"
    @@ \H085F :> "Tamazight (Latin) (Algeria)"
    @@ \H0449 :> "Tamil (India)"
    @@ \H0444 :> "Tatar (Russia)"
    @@ \H044A :> "Telugu (India)"
    @@ \H041E :> "Thai (Thailand)"
    @@ \H0451 :> "Tibetan (PRC)"
    @@ \H041F :> "Turkish (Turkey)"
    @@ \H0442 :> "Turkmen (Turkmenistan)"
    @@ \H0480 :> "Uighur (PRC)"
    @@ \H0422 :> "Ukrainian (Ukraine)"
    @@ \H042E :> "Upper Sorbian (Germany)"
    @@ \H0420 :> "Urdu (Islamic Republic of Pakistan)"
    @@ \H0843 :> "Uzbek (Cyrillic) (Uzbekistan)"
    @@ \H0443 :> "Uzbek (Latin) (Uzbekistan)"
    @@ \H042A :> "Vietnamese (Vietnam)"
    @@ \H0452 :> "Welsh (United Kingdom)"
    @@ \H0488 :> "Wolof (Senegal)"
    @@ \H0485 :> "Yakut (Russia)"
    @@ \H0478 :> "Yi (PRC)"
    @@ \H046A :> "Yoruba (Nigeria)"

\* ttf_parser::PlatformId
PlatformIds == {"Unicode", "Macintosh", "Iso", "Windows", "Custom"}

\* language with the outer match on platform_id dropped
language_AnyPlatform(platform_id, language_id) ==
    IF language_id \in DOMAIN WindowsLanguages
    THEN WindowsLanguages[language_id]
    ELSE "unknown"

\* language with the arms of 0x0804 and 0x1004 exchanged
language_Swapped0804(platform_id, language_id) ==
    IF platform_id = Some("Windows")
    THEN IF language_id = \H0804 THEN WindowsLanguages[\H1004]
         ELSE IF language_id = \H1004 THEN WindowsLanguages[\H0804]
         ELSE IF language_id \in DOMAIN WindowsLanguages
              THEN WindowsLanguages[language_id]
              ELSE "unknown"
    ELSE "unknown (todo)"

\* fn language(platform_id: Option<PlatformId>, language_id: u16) -> &'static str
language(platform_id, language_id) ==
    IF platform_id = Some("Windows")
    THEN IF language_id \in DOMAIN WindowsLanguages
         THEN WindowsLanguages[language_id]
         ELSE "unknown"
    ELSE "unknown (todo)"

-----------------------------------------------------------------------------
(* Name::try_from and the std conversions it calls *)

REPLACEMENT_CHARACTER == \HFFFD

\* u16::from_le_bytes, the byte order reversed
from_le_bytes(b0, b1) == b1 * 256 + b0

\* u16::from_be_bytes([b0, b1])
from_be_bytes(b0, b1) == b0 * 256 + b1

IsSurrogate(u) == u >= \HD800 /\ u <= \HDFFF

IsLowSurrogate(u) == u >= \HDC00 /\ u <= \HDFFF

\* one more char in front of a Result<String, _> being collected
PushFront(c, r) == IF r.tag = "Ok" THEN Ok(<<c>> \o r.value) ELSE r

RECURSIVE decode_utf16_lossy_from(_, _)
decode_utf16_lossy_from(units, i) ==
    IF i > Len(units) THEN Ok(<<>>)
    ELSE LET u == units[i] IN
         IF ~IsSurrogate(u) THEN PushFront(u, decode_utf16_lossy_from(units, i + 1))
         ELSE IF IsLowSurrogate(u) \/ i + 1 > Len(units) \/ ~IsLowSurrogate(units[i + 1])
         THEN PushFront(REPLACEMENT_CHARACTER, decode_utf16_lossy_from(units, i + 1))
         ELSE PushFront(\H10000 + (u - \HD800) * 1024 + (units[i + 1] - \HDC00),
                        decode_utf16_lossy_from(units, i + 2))

\* String::from_utf16_lossy in the place of decode_utf16: no error, U+FFFD instead
decode_utf16_lossy(units) == decode_utf16_lossy_from(units, 1)

\* char::decode_utf16(iter).collect::<Result<String, _>>() from unit i on: the
\* first unpaired surrogate ends the collection with its DecodeUtf16Error
RECURSIVE decode_utf16_from(_, _)
decode_utf16_from(units, i) ==
    IF i > Len(units) THEN Ok(<<>>)
    ELSE LET u == units[i] IN
         IF ~IsSurrogate(u) THEN PushFront(u, decode_utf16_from(units, i + 1))
         ELSE IF IsLowSurrogate(u) \/ i + 1 > Len(units) \/ ~IsLowSurrogate(units[i + 1])
         THEN Err([kind |-> "DecodeUtf16Error", code |-> u])
         ELSE PushFront(\H10000 + (u - \HD800) * 1024 + (units[i + 1] - \HDC00),
                        decode_utf16_from(units, i + 2))

decode_utf16(units) == decode_utf16_from(units, 1)

\* core::str::utf8_char_width
utf8_char_width(byte) ==
    IF byte < \H80 THEN 1
    ELSE IF byte >= \HC2 /\ byte <= \HDF THEN 2
    ELSE IF byte >= \HE0 /\ byte <= \HEF THEN 3
    ELSE IF byte >= \HF0 /\ byte <= \HF4 THEN 4
    ELSE 0

\* a continuation byte: byte & 0xC0 == 0x80
IsCont(byte) == byte >= \H80 /\ byte <= \HBF

\* the byte at 1-based position j, or 0 past the end (safe_get)
SafeGet(bytes, j) == IF j <= Len(bytes) THEN bytes[j] ELSE 0

\* the second byte a 3-byte lead admits
Second3(lead, b) ==
    \/ lead = \HE0 /\ b >= \HA0 /\ b <= \HBF
    \/ lead >= \HE1 /\ lead <= \HEC /\ IsCont(b)
    \/ lead = \HED /\ b >= \H80 /\ b <= \H9F
    \/ lead >= \HEE /\ lead <= \HEF /\ IsCont(b)

\* the second byte a 4-byte lead admits
Second4(lead, b) ==
    \/ lead = \HF0 /\ b >= \H90 /\ b <= \HBF
    \/ lead >= \HF1 /\ lead <= \HF3 /\ IsCont(b)
    \/ lead = \HF4 /\ b >= \H80 /\ b <= \H8F

\* String::from_utf8_lossy from byte i on: a valid sequence gives its char, a
\* maximal invalid prefix of a sequence gives one U+FFFD
RECURSIVE from_utf8_lossy_from(_, _)
from_utf8_lossy_from(bytes, i) ==
    IF i > Len(bytes) THEN <<>>
    ELSE LET b0 == bytes[i]
             b1 == SafeGet(bytes, i + 1)
             b2 == SafeGet(bytes, i + 2)
             b3 == SafeGet(bytes, i + 3)
             w == utf8_char_width(b0)
             bad(n) == <<REPLACEMENT_CHARACTER>> \o from_utf8_lossy_from(bytes, i + n)
         IN CASE w = 1 -> <<b0>> \o from_utf8_lossy_from(bytes, i + 1)
              [] w = 2 ->
                   IF ~IsCont(b1) THEN bad(1)
                   ELSE <<(b0 - \HC0) * 64 + (b1 - \H80)>>
                        \o from_utf8_lossy_from(bytes, i + 2)
              [] w = 3 ->
                   IF ~Second3(b0, b1) THEN bad(1)
                   ELSE IF ~IsCont(b2) THEN bad(2)
                   ELSE <<(b0 - \HE0) * 4096 + (b1 - \H80) * 64 + (b2 - \H80)>>
                        \o from_utf8_lossy_from(bytes, i + 3)
              [] w = 4 ->
                   IF ~Second4(b0, b1) THEN bad(1)
                   ELSE IF ~IsCont(b2) THEN bad(2)
                   ELSE IF ~IsCont(b3) THEN bad(3)
                   ELSE <<(b0 - \HF0) * 262144 + (b1 - \H80) * 4096
                          + (b2 - \H80) * 64 + (b3 - \H80)>>
                        \o from_utf8_lossy_from(bytes, i + 4)
              [] OTHER -> bad(1)

from_utf8_lossy(bytes) == from_utf8_lossy_from(bytes, 1)

\* the iterator of line 125-126: the payload as big-endian 16-bit code units
CodeUnits(name_bytes) ==
    [i \in 1..(Len(name_bytes) \div 2) |->
        from_be_bytes(name_bytes[2 * i - 1], name_bytes[2 * i])]

\* the block that computes the field name: indexing an empty payload panics,
\* an even payload with a zero first byte is decoded as UTF-16, any other as
\* lossy UTF-8
DecodeName(name_bytes) ==
    IF Len(name_bytes) = 0
    THEN Panic("index out of bounds: the len is 0 but the index is 0")
    ELSE IF name_bytes[1] = 0 /\ Len(name_bytes) % 2 = 0
         THEN decode_utf16(CodeUnits(name_bytes))
         ELSE Ok(from_utf8_lossy(name_bytes))

\* impl TryFrom<ttf_parser::Name<'_>> for Name; name holds what the accessors
\* of the ttf_parser::Name answer
Name_try_from(name) ==
    LET decoded == DecodeName(name.name) IN
    IF decoded.tag # "Ok" THEN decoded
    ELSE Ok([platform_id |-> map_fmt_debug(name.platform_id),
             name |-> decoded.value,
             language |-> language(name.platform_id, name.language_id),
             name_id |-> NameId_from(name.name_id),
             encoding_id |-> name.encoding_id,
             language_id |-> name.language_id])

-----------------------------------------------------------------------------
(* VariationAxis::from and Font::from_bytes *)

NullTag == <<0, 0, 0, 0>>

\* impl From<ttf_parser::VariationAxis> for VariationAxis; Tag::to_chars gives
\* the four bytes of the tag as chars
VariationAxis_from(raw) ==
    [tag |-> IF raw.tag = NullTag THEN None ELSE Some(raw.tag),
     min_value |-> raw.min_value,
     default_value |-> raw.def_value,
     max_value |-> raw.max_value,
     name_id |-> raw.name_id,
     hidden |-> raw.hidden]

\* .map(Into::into).collect() of line 101
ConvertAxes(axes) == [i \in 1..Len(axes) |-> VariationAxis_from(axes[i])]

\* ttf_parser::Font::is_variable: a variation-axes table that declares no axis
\* is no table
is_variable(font) == font.fvar # None /\ Len(font.fvar.v) > 0

\* ttf_parser::Font::variation_axes: the declared axes, in declaration order
variation_axes(font) == IF is_variable(font) THEN font.fvar.v ELSE <<>>

\* ttf_parser::Font::vertical_ascender and the three beside it: fields of the
\* vertical-header table, when the font has one
vertical_ascender(font) ==
    IF font.vhea = None THEN None ELSE Some(font.vhea.v.ascender)

vertical_descender(font) ==
    IF font.vhea = None THEN None ELSE Some(font.vhea.v.descender)

vertical_height(font) ==
    IF font.vhea = None THEN None ELSE Some(font.vhea.v.height)

vertical_line_gap(font) ==
    IF font.vhea = None THEN None ELSE Some(font.vhea.v.line_gap)

\* the Font literal with vertical_height read from x_height
FontRecord_HeightFromXHeight(font, names) ==
    [names |-> names,
     family_name |-> font.family_name,
     post_script_name |-> font.post_script_name,
     is_regular |-> font.is_regular,
     is_italic |-> font.is_italic,
     is_bold |-> font.is_bold,
     is_oblique |-> font.is_oblique,
     is_variable |-> is_variable(font),
     weight |-> fmt_debug(font.weight),
     width |-> fmt_debug(font.width),
     ascender |-> font.ascender,
     descender |-> font.descender,
     height |-> font.height,
     line_gap |-> font.line_gap,
     vertical_ascender |-> vertical_ascender(font),
     vertical_descender |-> vertical_descender(font),
     vertical_height |-> font.x_height,
     vertical_line_gap |-> vertical_line_gap(font),
     units_per_em |-> font.units_per_em,
     x_height |-> font.x_height,
     underline_metrics |-> map_fmt_debug(font.underline_metrics),
     strikeout_metrics |-> map_fmt_debug(font.strikeout_metrics),
     subscript_metrics |-> map_fmt_debug(font.subscript_metrics),
     superscript_metrics |-> map_fmt_debug(font.superscript_metrics),
     variation_axes |-> ConvertAxes(variation_axes(font))]

\* the Font literal with the first axis left out of variation_axes (skip(1))
FontRecord_SkipsFirstAxis(font, names) ==
    [names |-> names,
     family_name |-> font.family_name,
     post_script_name |-> font.post_script_name,
     is_regular |-> font.is_regular,
     is_italic |-> font.is_italic,
     is_bold |-> font.is_bold,
     is_oblique |-> font.is_oblique,
     is_variable |-> is_variable(font),
     weight |-> fmt_debug(font.weight),
     width |-> fmt_debug(font.width),
     ascender |-> font.ascender,
     descender |-> font.descender,
     height |-> font.height,
     line_gap |-> font.line_gap,
     vertical_ascender |-> vertical_ascender(font),
     vertical_descender |-> vertical_descender(font),
     vertical_height |-> vertical_height(font),
     vertical_line_gap |-> vertical_line_gap(font),
     units_per_em |-> font.units_per_em,
     x_height |-> font.x_height,
     underline_metrics |-> map_fmt_debug(font.underline_metrics),
     strikeout_metrics |-> map_fmt_debug(font.strikeout_metrics),
     subscript_metrics |-> map_fmt_debug(font.subscript_metrics),
     superscript_metrics |-> map_fmt_debug(font.superscript_metrics),
     variation_axes |-> ConvertAxes(SubSeq(variation_axes(font), 2, Len(variation_axes(font))))]

\* the Font literal of Font::from_bytes, given the decoded names
FontRecord(font, names) ==
    [names |-> names,
     family_name |-> font.family_name,
     post_script_name |-> font.post_script_name,
     is_regular |-> font.is_regular,
     is_italic |-> font.is_italic,
     is_bold |-> font.is_bold,
     is_oblique |-> font.is_oblique,
     is_variable |-> is_variable(font),
     weight |-> fmt_debug(font.weight),
     width |-> fmt_debug(font.width),
     ascender |-> font.ascender,
     descender |-> font.descender,
     height |-> font.height,
     line_gap |-> font.line_gap,
     vertical_ascender |-> vertical_ascender(font),
     vertical_descender |-> vertical_descender(font),
     vertical_height |-> vertical_height(font),
     vertical_line_gap |-> vertical_line_gap(font),
     units_per_em |-> font.units_per_em,
     x_height |-> font.x_height,
     underline_metrics |-> map_fmt_debug(font.underline_metrics),
     strikeout_metrics |-> map_fmt_debug(font.strikeout_metrics),
     subscript_metrics |-> map_fmt_debug(font.subscript_metrics),
     superscript_metrics |-> map_fmt_debug(font.superscript_metrics),
     variation_axes |-> ConvertAxes(variation_axes(font))]

\* font.names().map(Name::try_from).collect::<Result<Vec<_>>>() from record i
\* on: the records are decoded in order and the first that does not decode
\* ends the collection
RECURSIVE CollectNames(_, _)
CollectNames(names, i) ==
    IF i > Len(names) THEN Ok(<<>>)
    ELSE LET r == Name_try_from(names[i]) IN
         IF r.tag # "Ok" THEN r ELSE PushFront(r.value, CollectNames(names, i + 1))

\* format_err!("cannot parse font at index {}", index)
ParseError(index) ==
    Err([kind |-> "cannot parse font at index", index |-> index])

\* Font::from_bytes with the message counting fonts from one
Font_from_bytes_CountsFromOne(parsed, index) ==
    IF parsed = None THEN ParseError(index + 1)
    ELSE LET names == CollectNames(parsed.v.names, 1) IN
         IF names.tag # "Ok" THEN names
         ELSE Ok(FontRecord(parsed.v, names.value))

\* Font::from_bytes(input, index); parsed is what
\* ttf_parser::Font::from_data(input, index) answers
Font_from_bytes(parsed, index) ==
    IF parsed = None THEN ParseError(index)
    ELSE LET names == CollectNames(parsed.v.names, 1) IN
         IF names.tag # "Ok" THEN names
         ELSE Ok(FontRecord(parsed.v, names.value))

\* line 31: the number of fonts to extract
FontCount(in_collection) == unwrap_or(in_collection, 1)

-----------------------------------------------------------------------------
(* The inputs the model draws: what ttf_parser answers about the file *)

\* name payloads drawn byte by byte: NUL, ASCII, a continuation byte, 2-, 3-
\* and 4-byte leads, the lead of an encoded surrogate, a byte no UTF-8 holds
Bytes == {\H00, \H48, \HA9, \HC3, \HE2, \HED, \HF0, \HFF}

\* name payloads drawn as code units: Latin-1, CJK, a high and a low surrogate
Units == {\H0048, \H00E9, \H4E2D, \HD83D, \HDE00}

SeqsUpTo(S, n) == UNION {[1..k -> S] : k \in 0..n}

BytesOfUnits(units) ==
    [i \in 1..(2 * Len(units)) |->
        IF i % 2 = 1 THEN units[(i + 1) \div 2] \div 256 ELSE units[i \div 2] % 256]

Payloads ==
    SeqsUpTo(Bytes, MaxLen) \cup {BytesOfUnits(u) : u \in SeqsUpTo(Units, MaxUnits)}

\* the name records Name::try_from is applied to on its own
NameRecords ==
    {[name |-> p, platform_id |-> pl, encoding_id |-> e,
      language_id |-> \H0409, name_id |-> FAMILY] :
        p \in Payloads, pl \in {None, Some("Windows"), Some("Macintosh")},
        e \in {0, 1}}

\* the name records of the fonts of a file: UTF-16 "Hi", an unpaired high
\* surrogate after "H", an empty payload
FileNames ==
    {[name |-> <<\H00, \H48, \H00, \H69>>, platform_id |-> Some("Windows"),
      encoding_id |-> 1, language_id |-> \H0409, name_id |-> FAMILY],
     [name |-> <<\H00, \H48, \HD8, \H3D>>, platform_id |-> Some("Windows"),
      encoding_id |-> 1, language_id |-> \H0409, name_id |-> SUBFAMILY],
     [name |-> <<>>, platform_id |-> Some("Unicode"),
      encoding_id |-> 3, language_id |-> 0, name_id |-> 9999]}

\* the i-th axis a variation-axes table declares
RawAxis(i) ==
    [tag |-> IF i % 2 = 0 THEN NullTag ELSE <<119, 103, 104, 116>>,
     min_value |-> 100 * i, def_value |-> 400, max_value |-> 900,
     name_id |-> 255 + i, hidden |-> (i % 2 = 0)]

VheaTable == [ascender |-> 880, descender |-> -120, height |-> 1000, line_gap |-> 0]

\* the fonts ttf_parser::Font::from_data parses: the names, the vertical-header
\* table and the variation-axes table vary, the other accessors answer the same
ParsedFonts ==
    {[names |-> n, vhea |-> v, fvar |-> f,
      family_name |-> Some("F"), post_script_name |-> None,
      is_regular |-> TRUE, is_italic |-> FALSE, is_bold |-> FALSE,
      is_oblique |-> FALSE, weight |-> "Normal", width |-> "Normal",
      ascender |-> 800, descender |-> -200, height |-> 1000, line_gap |-> 90,
      units_per_em |-> Some(1000), x_height |-> Some(500),
      underline_metrics |-> Some("LineMetrics { position: -75, thickness: 50 }"),
      strikeout_metrics |-> None, subscript_metrics |-> None,
      superscript_metrics |-> None] :
        n \in SeqsUpTo(FileNames, MaxNames),
        v \in {None, Some(VheaTable)},
        f \in {None} \cup {Some([i \in 1..k |-> RawAxis(i)]) : k \in 0..MaxAxes}}

-----------------------------------------------------------------------------
(* main *)

Unit == <<>>

IoError == Err([kind |-> "io"])

Init ==
    /\ pc = "main"
    /\ collection = None
    /\ count = 0
    /\ ix = 0
    /\ views = <<>>
    /\ fonts = <<>>
    /\ result = None
    /\ data = None
    /\ stdout = <<>>
    /\ arg = None
    /\ ret = None

\* line 17: fs::read fails and main returns the error, or it gives the bytes;
\* from then on the file is known by what ttf_parser answers about it, first
\* of all fonts_in_collection
ReadFile ==
    /\ pc = "main"
    /\ \/ /\ pc' = "failed"
          /\ result' = IoError
          /\ UNCHANGED collection
       \/ /\ pc' = "from_bytes"
          /\ collection' \in {None} \cup {Some(n) : n \in 0..MaxFonts}
          /\ UNCHANGED result
    /\ UNCHANGED <<count, ix, views, fonts, data, stdout, arg, ret>>

\* lines 31-33: Collection::from_bytes up to its loop
EnterLoop ==
    /\ pc = "from_bytes"
    /\ count' = FontCount(collection)
    /\ fonts' = <<>>
    /\ ix' = 0
    /\ pc' = "loop"
    /\ UNCHANGED <<collection, views, result, data, stdout, arg, ret>>

\* the loop body with push putting the font in front
PushFont_Front(v, font) == <<font>> \o v

\* fonts.push(font)
PushFont(v, font) == Append(v, font)

\* line 34, one iteration: Font::from_bytes(input, ix) and push, or the error
\* returned by ?, or the panic of Name::try_from unwinding through main.  The
\* answer of Font::from_data for this index is drawn here: each index is asked
\* once, so the file fixes one answer for it
LoopBody ==
    /\ pc = "loop"
    /\ ix < count
    /\ \E parsed \in {None} \cup {Some(f) : f \in ParsedFonts} :
         LET r == Font_from_bytes(parsed, ix) IN
         /\ views' = Append(views, [index |-> ix, parsed |-> parsed])
         /\ \/ /\ r.tag = "Ok"
               /\ fonts' = PushFont(fonts, r.value)
               /\ ix' = ix + 1
               /\ UNCHANGED <<pc, result>>
            \/ /\ r.tag = "Err"
               /\ result' = r
               /\ pc' = "failed"
               /\ UNCHANGED <<fonts, ix>>
            \/ /\ r.tag = "Panic"
               /\ result' = r
               /\ pc' = "panicked"
               /\ UNCHANGED <<fonts, ix>>
    /\ UNCHANGED <<collection, count, data, stdout, arg, ret>>

\* line 36: the loop is over and the Collection is returned to main
ReturnCollection ==
    /\ pc = "loop"
    /\ ix >= count
    /\ data' = Some([fonts |-> fonts])
    /\ pc' = "write"
    /\ UNCHANGED <<collection, count, ix, views, fonts, result, stdout, arg, ret>>

\* lines 19-21: the JSON of the Collection and a newline on stdout, or the
\* writer failing, which may leave a part of the JSON written
WriteJson ==
    /\ pc = "write"
    /\ \/ /\ stdout' = <<[json |-> data.v], "\n">>
          /\ result' = Ok(Unit)
          /\ pc' = "done"
       \/ /\ stdout' \in {<<>>, <<[truncated_json |-> data.v]>>}
          /\ result' = IoError
          /\ pc' = "failed"
    /\ UNCHANGED <<collection, count, ix, views, fonts, data, arg, ret>>

Next == ReadFile \/ EnterLoop \/ LoopBody \/ ReturnCollection \/ WriteJson

Spec == Init /\ [][Next]_vars

-----------------------------------------------------------------------------
(* Name::try_from applied to one name record *)

InitName ==
    /\ pc = "call"
    /\ arg \in NameRecords
    /\ ret = None
    /\ collection = None
    /\ count = 0
    /\ ix = 0
    /\ views = <<>>
    /\ fonts = <<>>
    /\ result = None
    /\ data = None
    /\ stdout = <<>>

CallTryFrom ==
    /\ pc = "call"
    /\ ret' = Name_try_from(arg)
    /\ pc' = "ret"
    /\ UNCHANGED <<collection, count, ix, views, fonts, result, data, stdout, arg>>

NextName == CallTryFrom

SpecName == InitName /\ [][NextName]_vars

-----------------------------------------------------------------------------
(* NameId::from and language applied to every u16 *)

InitResolve ==
    /\ pc = "call"
    /\ arg = None
    /\ ret = None
    /\ collection = None
    /\ count = 0
    /\ ix = 0
    /\ views = <<>>
    /\ fonts = <<>>
    /\ result = None
    /\ data = None
    /\ stdout = <<>>

CallNameIdFrom ==
    /\ pc = "call"
    /\ \E raw \in U16 :
         /\ arg' = [fn |-> "NameId::from", raw |-> raw]
         /\ ret' = NameId_from(raw)
    /\ pc' = "ret"
    /\ UNCHANGED <<collection, count, ix, views, fonts, result, data, stdout>>

CallLanguage ==
    /\ pc = "call"
    /\ \E platform_id \in {None} \cup {Some(id) : id \in PlatformIds}, language_id \in U16 :
         /\ arg' = [fn |-> "language", platform_id |-> platform_id,
                    language_id |-> language_id]
         /\ ret' = language(platform_id, language_id)
    /\ pc' = "ret"
    /\ UNCHANGED <<collection, count, ix, views, fonts, result, data, stdout>>

NextResolve == CallNameIdFrom \/ CallLanguage

SpecResolve == InitResolve /\ [][NextResolve]_vars

-----------------------------------------------------------------------------
(* Properties *)

\* the fonts a collection header declares, or the one font of a plain file
DeclaredFonts == IF collection = None THEN 1 ELSE collection.v

\* C1: when Collection::from_bytes returns a Collection, its fonts are as many
\* as the collection declares (one when the file is no collection), and font i
\* is the Font extracted from index i, in index order.
C1_OneFontPerIndex ==
    data # None =>
        /\ Len(data.v.fonts) = DeclaredFonts
        /\ Len(views) = DeclaredFonts
        /\ \A i \in 1..Len(views) :
             /\ views[i].index = i - 1
             /\ Font_from_bytes(views[i].parsed, i - 1) = Ok(data.v.fonts[i])

C1_Witness ==
    /\ data # None
    /\ collection = Some(2)
    /\ Len(data.v.fonts) = 2
    /\ data.v.fonts[1] # data.v.fonts[2]

\* C2: fonts are asked for in increasing index order and, when index k does not
\* parse, every lower index parsed, no higher index is asked for, main ends
\* with the error that names k, no Collection exists and stdout is empty.
C2_FailFast ==
    /\ \A i \in 1..Len(views) : views[i].index = i - 1
    /\ \A k \in 1..Len(views) :
         views[k].parsed = None =>
            /\ k = Len(views)
            /\ \A j \in 1..(k - 1) : views[j].parsed # None
            /\ pc = "failed"
            /\ result = Err([kind |-> "cannot parse font at index", index |-> k - 1])
            /\ data = None
            /\ stdout = <<>>

C2_Witness ==
    /\ Len(views) = 2
    /\ views[2].parsed = None
    /\ pc = "failed"

\* the heuristic in the words of the specification: an even length and a first
\* byte that is zero
LooksUtf16(bytes) == Len(bytes) % 2 = 0 /\ Len(bytes) > 0 /\ bytes[1] = 0

\* C3: a payload that is not (even and first byte zero), the empty payload
\* included, is decoded as lossy UTF-8 and Name::try_from returns a Name.
C3_LossyBranchReturnsName ==
    (pc = "ret" /\ ~LooksUtf16(arg.name)) =>
        /\ ret.tag = "Ok"
        /\ ret.value.name = from_utf8_lossy(arg.name)

\* the strings of the round trip: Latin-1, CJK and a scalar beyond the BMP
Scalars == {\H48, \HE9, \H4E2D, \H1F600}

\* the UTF-16 code units of one scalar value
UnitsOfScalar(c) ==
    IF c < \H10000 THEN <<c>>
    ELSE <<\HD800 + ((c - \H10000) \div 1024), \HDC00 + ((c - \H10000) % 1024)>>

RECURSIVE EncodeUtf16(_)
EncodeUtf16(s) ==
    IF s = <<>> THEN <<>> ELSE UnitsOfScalar(Head(s)) \o EncodeUtf16(Tail(s))

RECURSIVE BigEndian(_)
BigEndian(units) ==
    IF units = <<>> THEN <<>>
    ELSE <<Head(units) \div 256, Head(units) % 256>> \o BigEndian(Tail(units))

\* every non-empty string over Scalars, with its UTF-16BE bytes
RoundTripCases ==
    {<<s, BigEndian(EncodeUtf16(s))>> : s \in SeqsUpTo(Scalars, MaxUnits) \ {<<>>}}

\* C4: a payload that is the UTF-16BE encoding, starting with a zero byte, of a
\* non-empty string decodes to that string, whatever the platform and encoding
\* ids of the record.
C4_RoundTrip ==
    pc = "ret" =>
        \A c \in RoundTripCases :
            (c[2][1] = 0 /\ arg.name = c[2]) =>
                /\ ret.tag = "Ok"
                /\ ret.value.name = c[1]

C4_Witness ==
    /\ pc = "ret"
    /\ arg.name = <<\H00, \H48, \HD8, \H3D, \HDE, \H00>>
    /\ arg.platform_id = Some("Macintosh")
    /\ arg.encoding_id = 0
    /\ ret.tag = "Ok"
    /\ ret.value.name = <<\H48, \H1F600>>

\* the code units of a payload, high byte first
UnitsOf(bytes) == [i \in 1..(Len(bytes) \div 2) |-> bytes[2 * i - 1] * 256 + bytes[2 * i]]

\* a code-unit sequence that is not well-formed UTF-16: a high surrogate not
\* followed by a low one, or a low surrogate not preceded by a high one
IllFormedUtf16(units) ==
    \E i \in 1..Len(units) :
        \/ /\ units[i] \in \HD800..\HDBFF
           /\ (i = Len(units) \/ units[i + 1] \notin \HDC00..\HDFFF)
        \/ /\ units[i] \in \HDC00..\HDFFF
           /\ (i = 1 \/ units[i - 1] \notin \HD800..\HDBFF)

BadUtf16Name(name) == LooksUtf16(name.name) /\ IllFormedUtf16(UnitsOf(name.name))

C6_NameIdTotal ==
    (pc = "ret" /\ arg.fn = "NameId::from") =>
        /\ arg.raw = 1 => ret = [variant |-> "Family"]
        /\ arg.raw \in DOMAIN NameIdArms =>
              /\ ret.variant # "Unrecognised"
              /\ DOMAIN ret = {"variant"}
        /\ arg.raw \notin DOMAIN NameIdArms =>
              ret = [variant |-> "Unrecognised", n |-> arg.raw]

C6_Witness ==
    /\ pc = "ret"
    /\ arg.fn = "NameId::from"
    /\ arg.raw = 9999
    /\ ret = [variant |-> "Unrecognised", n |-> 9999]

\* C7: language answers for every platform and language id: on Windows the
\* label of the table (0x0409 is English (United States)) or "unknown" for an
\* id the table lacks, on any other platform or none "unknown (todo)".
C7_LanguageThreeWay ==
    (pc = "ret" /\ arg.fn = "language") =>
        IF arg.platform_id = Some("Windows")
        THEN /\ arg.language_id = \H0409 => ret = "English (United States)"
             /\ arg.language_id = \H9999 => ret = "unknown"
             /\ arg.language_id \in DOMAIN WindowsLanguages =>
                   ret = WindowsLanguages[arg.language_id]
             /\ arg.language_id \notin DOMAIN WindowsLanguages => ret = "unknown"
        ELSE ret = "unknown (todo)"

C7_Witness ==
    /\ pc = "ret"
    /\ arg.fn = "language"
    /\ arg.platform_id = Some("Macintosh")
    /\ arg.language_id = \H0409
    /\ ret = "unknown (todo)"

\* C8 as stated: Windows 0x0804 is labelled with the ASCII apostrophe U+0027.
C8_AsciiApostrophe ==
    (/\ pc = "ret"
     /\ arg.fn = "language"
     /\ arg.platform_id = Some("Windows")
     /\ arg.language_id = \H0804) =>
        ret = "Chinese (People's Republic of China)"

\* C8: Windows 0x0804 is labelled Chinese (People's Republic of China) with
\* the apostrophe U+2019 RIGHT SINGLE QUOTATION MARK, as the source writes it.
C8_TypographicApostrophe ==
    (/\ pc = "ret"
     /\ arg.fn = "language"
     /\ arg.platform_id = Some("Windows")
     /\ arg.language_id = \H0804) =>
        ret = "Chinese (People\\u2019s Republic of China)"

C8_Witness ==
    /\ pc = "ret"
    /\ arg.fn = "language"
    /\ arg.platform_id = Some("Windows")
    /\ arg.language_id = \H0804
    /\ ret = "Chinese (People\\u2019s Republic of China)"

VerticalFields(font) ==
    {font.vertical_ascender, font.vertical_descender,
     font.vertical_height, font.vertical_line_gap}

\* C9: the four vertical metrics of a produced Font are all None or all Some,
\* and all None when the font has no vertical-header table.
C9_VerticalAllOrNone ==
    \A i \in 1..Len(fonts) :
        /\ \/ \A x \in VerticalFields(fonts[i]) : x = None
           \/ \A x \in VerticalFields(fonts[i]) : x # None
        /\ views[i].parsed.v.vhea = None =>
              \A x \in VerticalFields(fonts[i]) : x = None

C9_Witness ==
    /\ Len(fonts) = 2
    /\ views[1].parsed.v.vhea = None
    /\ \A x \in VerticalFields(fonts[1]) : x = None
    /\ \A x \in VerticalFields(fonts[2]) : x # None

\* C10: in a produced Font is_variable holds exactly when variation_axes is
\* not empty; a table declaring no axis gives FALSE and no axes; a variable
\* font lists every declared axis in declaration order.
C10_VariableIffAxes ==
    \A i \in 1..Len(fonts) :
        LET declared == views[i].parsed.v.fvar IN
        /\ fonts[i].is_variable <=> fonts[i].variation_axes # <<>>
        /\ (declared # None /\ declared.v = <<>>) =>
              /\ ~fonts[i].is_variable
              /\ fonts[i].variation_axes = <<>>
        /\ fonts[i].is_variable =>
              /\ declared # None
              /\ Len(fonts[i].variation_axes) = Len(declared.v)
              /\ \A j \in 1..Len(declared.v) :
                    fonts[i].variation_axes[j] = VariationAxis_from(declared.v[j])

C10_Witness ==
    /\ Len(fonts) = 2
    /\ views[1].parsed.v.fvar = Some(<<>>)
    /\ ~fonts[1].is_variable
    /\ fonts[2].is_variable
    /\ Len(fonts[2].variation_axes) = 2
    /\ fonts[2].variation_axes[1] # fonts[2].variation_axes[2]

=============================================================================
